---- MODULE Spec2Model ----
(***************************************************************************)
(* A model of the sliding-tile game session of src/js/game_manager.js:     *)
(* class Game (setup, restart, keepPlaying, move, draw) together with the  *)
(* Grid, Tile, Storage and Render collaborators it calls.                  *)
(***************************************************************************)
EXTENDS Integers, Sequences, FiniteSets, TLC

\* ------------------------------------------------------------------------
\* Bounds of the model
\* ------------------------------------------------------------------------
\* Board dimension declared by the renderer (render.size) in the sessions of
\* Spec, which are played from setup to the end of the game.
Size == 2

\* startTiles handed to the Game constructor: StartTiles, or as many as the
\* board has cells.
StartTiles == 2

\* Accepted (board-changing) moves explored in one session, from its fresh
\* setup to its restart.
MaxMoves == 2
\* Sessions under one manager, and the start tiles of each, where several play.
Count == 2
ManagerStartTiles == 1

\* Board dimension and largest startTiles of the sessions of SpecBoards, which
\* make one accepted move from every board setup can produce.
WideSize == 3
WideStartTiles == 3

\* ------------------------------------------------------------------------
\* Program constants
\* ------------------------------------------------------------------------
\* A win threshold set one doubling too high.
WinValue_Doubled == 2 * 2048

\* The value of "the mighty 2048 tile".
WinValue == 2048

\* The value a spawned tile takes with probability 0.9 / 0.1.
SpawnValues == {2, 4}

\* `this.size` as read by tileMatchesAvailable: Game never assigns a `size`
\* property, the read yields undefined and `x < undefined` is false, so the
\* scan covers the columns 0 .. thisSize-1 with thisSize = 0.
thisSize == 0

Null == [null |-> TRUE]

VARIABLES
  renderSize,   \* this.render.size
  grid,         \* this.grid: [size, cells]
  score,        \* this.score
  over,         \* this.over
  won,          \* this.won
  keepPlaying,  \* the own property this.keepPlaying (shadows the method)
  startTiles,   \* this.startTiles
  gameState,    \* storage: the persisted game state, or Null
  bestScore,    \* storage: the persisted best score
  calls,        \* callouts to storage and render made by the last operation
  lastOp,       \* the last operation invoked on the session
  error,        \* "none", or the exception the last operation threw
  nmoves,       \* accepted moves since the last fresh setup
  controlIndex, \* GameManager.controlIndex: the place of this session in games
  others        \* GameManager.games at the other indices, each with its storage

vars == <<renderSize, grid, score, over, won, keepPlaying, startTiles, gameState,
          bestScore, calls, lastOp, error, nmoves, controlIndex, others>>

\* ------------------------------------------------------------------------
\* Tile
\* ------------------------------------------------------------------------
Position(x, y) == [x |-> x, y |-> y]

Tile(position, value) ==
  [x |-> position.x, y |-> position.y, value |-> value,
   previousPosition |-> Null, mergedFrom |-> <<>>]

savePosition(tile) ==
  [tile EXCEPT !.previousPosition = Position(tile.x, tile.y)]

updatePosition(tile, position) ==
  [tile EXCEPT !.x = position.x, !.y = position.y]

TileSerialize(tile) ==
  [position |-> Position(tile.x, tile.y), value |-> tile.value]

\* ------------------------------------------------------------------------
\* Grid
\* ------------------------------------------------------------------------
Positions(n) == {Position(x, y) : x \in 0..(n - 1), y \in 0..(n - 1)}

EmptyGrid(n) == [size |-> n, cells |-> [p \in Positions(n) |-> Null]]

withinBounds(g, position) ==
  /\ position.x >= 0 /\ position.x < g.size
  /\ position.y >= 0 /\ position.y < g.size

cellContent(g, cell) ==
  IF withinBounds(g, cell) THEN g.cells[cell] ELSE Null

cellAvailable(g, cell) == cellContent(g, cell) = Null

availableCells(g) == {p \in Positions(g.size) : g.cells[p] = Null}

cellsAvailable(g) == availableCells(g) # {}

insertTile(g, tile) ==
  [g EXCEPT !.cells[Position(tile.x, tile.y)] = tile]

removeTile(g, tile) ==
  [g EXCEPT !.cells[Position(tile.x, tile.y)] = Null]

GridSerialize(g) ==
  [size  |-> g.size,
   cells |-> [p \in Positions(g.size) |->
                IF g.cells[p] = Null THEN Null ELSE TileSerialize(g.cells[p])]]

GridFromState(size, state) ==
  [size  |-> size,
   cells |-> [p \in Positions(size) |->
                IF state[p] = Null THEN Null
                ELSE Tile(state[p].position, state[p].value)]]

\* ------------------------------------------------------------------------
\* Game: queries
\* ------------------------------------------------------------------------
\* A termination test that forgets the won-without-keepPlaying case.
isGameTerminated_OverOnly(ov, wn, kp) == ov

isGameTerminated(ov, wn, kp) == ov \/ (wn /\ ~kp)

getVector(direction) ==
  CASE direction = 0 -> [x |-> 0,  y |-> -1]
    [] direction = 1 -> [x |-> 1,  y |-> 0]
    [] direction = 2 -> [x |-> 0,  y |-> 1]
    [] direction = 3 -> [x |-> -1, y |-> 0]

\* A comparison that never finds two positions equal.
positionsEqual_Never(first, second) == FALSE

positionsEqual(first, second) == first.x = second.x /\ first.y = second.y

tileMatchesAvailable(g) ==
  \E x \in 0..(thisSize - 1), y \in 0..(thisSize - 1) :
    LET tile == cellContent(g, Position(x, y)) IN
      /\ tile # Null
      /\ \E direction \in 0..3 :
           LET vector == getVector(direction)
               other  == cellContent(g, Position(x + vector.x, y + vector.y))
           IN other # Null /\ other.value = tile.value

\* A termination check that never finds a move.
movesAvailable_Never(g) == FALSE

\* A termination check that always finds a move.
movesAvailable_Always(g) == TRUE

movesAvailable(g) == cellsAvailable(g) \/ tileMatchesAvailable(g)

\* A serialize that forgets the won flag.
serialize_DropWon(g, sc, ov, wn, kp) ==
  [grid |-> GridSerialize(g), score |-> sc, over |-> ov, won |-> FALSE,
   keepPlaying |-> kp]

serialize(g, sc, ov, wn, kp) ==
  [grid |-> GridSerialize(g), score |-> sc, over |-> ov, won |-> wn,
   keepPlaying |-> kp]

\* ------------------------------------------------------------------------
\* Game: setup and draw
\* ------------------------------------------------------------------------
\* A spawn that picks its cell among all cells, occupied or not.
addRandomTile_AnyCell(g) ==
  IF cellsAvailable(g)
  THEN {insertTile(g, Tile(cell, value)) :
          cell \in Positions(g.size), value \in SpawnValues}
  ELSE {g}

\* The grids addRandomTile can leave: a tile of value 2 or 4 in any empty cell,
\* or the grid untouched when no cell is available.
addRandomTile(g) ==
  IF cellsAvailable(g)
  THEN {insertTile(g, Tile(cell, value)) :
          cell \in availableCells(g), value \in SpawnValues}
  ELSE {g}

\* A loop that stops one iteration early.
RECURSIVE addStartTiles_OneShort(_, _)
addStartTiles_OneShort(gs, n) ==
  IF n <= 1 THEN gs
  ELSE addStartTiles_OneShort(UNION {addRandomTile(g) : g \in gs}, n - 1)

\* The grids the loop of addStartTiles can leave after n more iterations,
\* started from any grid of gs.
RECURSIVE addStartTiles(_, _)
addStartTiles(gs, n) ==
  IF n <= 0 THEN gs
  ELSE addStartTiles(UNION {addRandomTile(g) : g \in gs}, n - 1)

\* The sessions setup can leave, given what storage.getGameState() returned.
setup(previousState, rsize, nStart) ==
  IF previousState # Null
  THEN {[grid        |-> GridFromState(previousState.grid.size,
                                       previousState.grid.cells),
         score       |-> previousState.score,
         over        |-> previousState.over,
         won         |-> previousState.won,
         keepPlaying |-> previousState.keepPlaying]}
  ELSE {[grid |-> g, score |-> 0, over |-> FALSE, won |-> FALSE,
         keepPlaying |-> FALSE] : g \in addStartTiles({EmptyGrid(rsize)}, nStart)}

\* A draw that never writes the best score.
draw_KeepBest(s, best) ==
  [bestScore |-> best,
   gameState |-> IF s.over THEN Null
                 ELSE serialize(s.grid, s.score, s.over, s.won, s.keepPlaying),
   calls     |-> <<"getBestScore">>
                 \o (IF s.over THEN <<"clearGameState">> ELSE <<"setGameState">>)
                 \o <<"getBestScore", "draw">>]

\* A draw that saves the game state even when the game is over.
draw_AlwaysSave(s, best) ==
  [bestScore |-> IF best < s.score THEN s.score ELSE best,
   gameState |-> serialize(s.grid, s.score, s.over, s.won, s.keepPlaying),
   calls     |-> <<"getBestScore">>
                 \o (IF best < s.score THEN <<"setBestScore">> ELSE <<>>)
                 \o <<"setGameState", "getBestScore", "draw">>]

\* draw: the storage it leaves and the callouts it makes.
draw(s, best) ==
  [bestScore |-> IF best < s.score THEN s.score ELSE best,
   gameState |-> IF s.over THEN Null
                 ELSE serialize(s.grid, s.score, s.over, s.won, s.keepPlaying),
   calls     |-> <<"getBestScore">>
                 \o (IF best < s.score THEN <<"setBestScore">> ELSE <<>>)
                 \o (IF s.over THEN <<"clearGameState">> ELSE <<"setGameState">>)
                 \o <<"getBestScore", "draw">>]

\* ------------------------------------------------------------------------
\* Game: the slide and merge phase of move
\* ------------------------------------------------------------------------
prepareTiles(g) ==
  [g EXCEPT !.cells =
     [p \in DOMAIN g.cells |->
        IF g.cells[p] = Null THEN Null
        ELSE savePosition([g.cells[p] EXCEPT !.mergedFrom = <<>>])]]

\* A relocation that forgets to vacate the cell the tile leaves.
moveTile_KeepSource(g, tile, cell) ==
  [g EXCEPT !.cells[cell] = updatePosition(tile, cell)]

moveTile(g, tile, cell) ==
  [g EXCEPT !.cells[Position(tile.x, tile.y)] = Null,
            !.cells[cell] = updatePosition(tile, cell)]

reverse(seq) == [i \in 1..Len(seq) |-> seq[Len(seq) + 1 - i]]

\* Traversals that are never reversed.
buildTraversals_NoReverse(vector, size) ==
  LET natural == [i \in 1..size |-> i - 1] IN
    [x |-> natural, y |-> natural]

buildTraversals(vector, size) ==
  LET natural == [i \in 1..size |-> i - 1] IN
    [x |-> IF vector.x = 1 THEN reverse(natural) ELSE natural,
     y |-> IF vector.y = 1 THEN reverse(natural) ELSE natural]

RECURSIVE findFarthestPosition(_, _, _)
findFarthestPosition(g, cell, vector) ==
  LET next == Position(cell.x + vector.x, cell.y + vector.y) IN
    IF withinBounds(g, next) /\ cellAvailable(g, next)
    THEN findFarthestPosition(g, next, vector)
    ELSE [farthest |-> cell, next |-> next]

\* A merge test that does not look at the neighbour's merge provenance.
canMerge_IgnoreProvenance(tile, next) ==
  next # Null /\ next.value = tile.value

\* "Only one merger per row traversal?": the test that sends a tile into a merge.
canMerge(tile, next) ==
  next # Null /\ next.value = tile.value /\ next.mergedFrom = <<>>

\* A score update with the wrong sign.
updateScore_Subtract(sc, merged) == sc - merged.value

\* this.score += merged.value
updateScore(sc, merged) == sc + merged.value

\* The body of the traversal callback for one cell; st = [grid, score, won, moved].
moveCell(st, cell, vector) ==
  LET tile == cellContent(st.grid, cell) IN
    IF tile = Null THEN st
    ELSE
      LET positions == findFarthestPosition(st.grid, cell, vector)
          next      == cellContent(st.grid, positions.next)
      IN
        IF canMerge(tile, next)
        THEN
          LET converged == updatePosition(tile, positions.next)
              merged    == [Tile(positions.next, tile.value * 2)
                              EXCEPT !.mergedFrom = <<converged, next>>]
          IN [grid  |-> removeTile(insertTile(st.grid, merged), tile),
              score |-> updateScore(st.score, merged),
              won   |-> IF merged.value = WinValue THEN TRUE ELSE st.won,
              moved |-> st.moved \/ ~positionsEqual(cell, converged)]
        ELSE
          [st EXCEPT
             !.grid  = moveTile(st.grid, tile, positions.farthest),
             !.moved = st.moved
                       \/ ~positionsEqual(cell, updatePosition(tile, positions.farthest))]

\* traversals.x.forEach(x => traversals.y.forEach(y => ...)), from the i-th x on.
RECURSIVE traverseY(_, _, _, _, _)
traverseY(st, x, ys, j, vector) ==
  IF j > Len(ys) THEN st
  ELSE traverseY(moveCell(st, Position(x, ys[j]), vector), x, ys, j + 1, vector)

RECURSIVE traverseX(_, _, _, _)
traverseX(st, traversals, i, vector) ==
  IF i > Len(traversals.x) THEN st
  ELSE traverseX(traverseY(st, traversals.x[i], traversals.y, 1, vector),
                 traversals, i + 1, vector)

\* move up to `if (moved)`: the grid, score and won it reaches and whether a
\* tile left its cell.
slide(g, sc, wn, rsize, direction) ==
  LET vector     == getVector(direction)
      traversals == buildTraversals(vector, rsize)
  IN traverseX([grid |-> prepareTiles(g), score |-> sc, won |-> wn,
                moved |-> FALSE],
               traversals, 1, vector)

\* ------------------------------------------------------------------------
\* What storage can hold when the first session is constructed
\* ------------------------------------------------------------------------
\* Boards an earlier run persisted: two 1024 tiles side by side in the top
\* row, the rest of the board either empty or filled with 2s and 4s so that no
\* other pair matches.
SavedCells(n, full) ==
  [p \in Positions(n) |->
     IF p.y = 0 /\ p.x <= 1
     THEN [position |-> p, value |-> 1024]
     ELSE IF full
          THEN [position |-> p, value |-> IF (p.x + p.y) % 2 = 0 THEN 2 ELSE 4]
          ELSE Null]

SavedStates(n) ==
  {[grid  |-> [size |-> n, cells |-> SavedCells(n, full)],
    score |-> 18432, over |-> FALSE, won |-> FALSE,
    keepPlaying |-> FALSE] : full \in BOOLEAN}

\* ------------------------------------------------------------------------
\* Operations
\* ------------------------------------------------------------------------
\* setup() and the draw() that ends it, as the constructor and restart run
\* them: previousState is what storage.getGameState() returns, best what
\* storage.getBestScore() returns, op the callouts made before setup.
Construct(previousState, best, op) ==
  \E s \in setup(previousState, renderSize', startTiles') :
    LET d == draw(s, best) IN
      /\ grid' = s.grid
      /\ score' = s.score
      /\ over' = s.over
      /\ won' = s.won
      /\ keepPlaying' = s.keepPlaying
      /\ gameState' = d.gameState
      /\ bestScore' = d.bestScore
      /\ calls' = op \o <<"getGameState">> \o d.calls
      /\ error' = "none"

\* The state after `new Game(render, storage, startTiles)`, for a renderer of
\* size rs, a startTiles of starts and a storage holding one of stored.
InitWith(rs, starts, stored, moves) ==
  /\ renderSize = rs
  /\ startTiles \in starts
  /\ nmoves = moves
  /\ lastOp = "new"
  /\ error = "none"
  /\ \E previousState \in stored :
       \E s \in setup(previousState, renderSize, startTiles) :
         LET d == draw(s, IF previousState = Null THEN 0
                          ELSE previousState.score)
         IN /\ grid = s.grid
            /\ score = s.score
            /\ over = s.over
            /\ won = s.won
            /\ keepPlaying = s.keepPlaying
            /\ gameState = d.gameState
            /\ bestScore = d.bestScore
            /\ calls = <<"getGameState">> \o d.calls

\* One session, driven alone.
Alone == controlIndex = 0 /\ others = <<>>

Init ==
  /\ InitWith(Size, {StartTiles, Size * Size}, {Null} \cup SavedStates(Size), 0)
  /\ Alone

\* A later process constructs the session again on the same storage.
Reload ==
  /\ UNCHANGED <<renderSize, startTiles>>
  /\ Construct(gameState, bestScore, <<>>)
  /\ lastOp' = "new"
  /\ UNCHANGED nmoves

Restart ==
  /\ UNCHANGED <<renderSize, startTiles>>
  /\ Construct(Null, bestScore, <<"clearGameState", "continueGame">>)
  /\ lastOp' = "restart"
  /\ nmoves' = 0

\* GameManager.keepPlaying: g.keepPlaying() on the session.  setup has
\* assigned the own property this.keepPlaying (a boolean), which shadows the
\* method of the same name, so the call finds a boolean and throws a
\* TypeError before the method body (this.keepPlaying = true; continueGame)
\* can run.
KeepPlaying ==
  /\ lastOp' = "keepPlaying"
  /\ keepPlaying \in BOOLEAN
  /\ keepPlaying' = keepPlaying
  /\ calls' = <<>>
  /\ error' = "TypeError"
  /\ UNCHANGED <<renderSize, grid, score, over, won, startTiles, gameState,
                 bestScore, nmoves>>

Move(direction) ==
  /\ lastOp' = "move"
  /\ error' = "none"
  /\ IF isGameTerminated(over, won, keepPlaying)
     THEN /\ calls' = <<>>
          /\ UNCHANGED <<renderSize, grid, score, over, won, keepPlaying,
                         startTiles, gameState, bestScore, nmoves>>
     ELSE
       LET st == slide(grid, score, won, renderSize, direction) IN
         IF st.moved
         THEN /\ nmoves < MaxMoves
              /\ nmoves' = nmoves + 1
              /\ \E g \in addRandomTile(st.grid) :
                   LET ov == IF ~movesAvailable(g) THEN TRUE ELSE over
                       d  == draw([grid |-> g, score |-> st.score, over |-> ov,
                                   won |-> st.won, keepPlaying |-> keepPlaying],
                                  bestScore)
                   IN /\ grid' = g
                      /\ score' = st.score
                      /\ won' = st.won
                      /\ over' = ov
                      /\ gameState' = d.gameState
                      /\ bestScore' = d.bestScore
                      /\ calls' = d.calls
              /\ UNCHANGED <<renderSize, keepPlaying, startTiles>>
         ELSE /\ grid' = st.grid
              /\ score' = st.score
              /\ won' = st.won
              /\ calls' = <<>>
              /\ UNCHANGED <<renderSize, over, keepPlaying, startTiles, gameState,
                             bestScore, nmoves>>

\* `new Game(render, storage, startTiles)` on a storage holding previousState
\* and best, as a value: the sessions it can construct, each with what its
\* storage holds after the draw that ends setup.
newGame(previousState, best, rsize, nStart) ==
  {[grid |-> s.grid, score |-> s.score, over |-> s.over, won |-> s.won,
    keepPlaying |-> s.keepPlaying,
    gameState |-> draw(s, best).gameState,
    bestScore |-> draw(s, best).bestScore] :
     s \in setup(previousState, rsize, nStart)}

\* A restart that does nothing.
restartGame_Skip(g, rsize, nStart) == {g}

\* g.restart() as a value: the stored state is cleared, then setup runs.
restartGame(g, rsize, nStart) == newGame(Null, g.bestScore, rsize, nStart)

\* GameManager.move: the session at controlIndex moves, no other is called.
ManagerMove(direction) ==
  /\ Move(direction)
  /\ UNCHANGED <<controlIndex, others>>

\* GameManager.restart: every session restarts.
ManagerRestart ==
  /\ Restart
  /\ others' \in [DOMAIN others -> UNION {restartGame(others[i], renderSize,
                                                       startTiles) :
                                           i \in DOMAIN others}]
  /\ \A i \in DOMAIN others :
       others'[i] \in restartGame(others[i], renderSize, startTiles)
  /\ UNCHANGED controlIndex

\* GameManager.keepPlaying: the first g.keepPlaying() throws, in whichever
\* session it is, and the forEach ends there.
ManagerKeepPlaying ==
  /\ KeepPlaying
  /\ UNCHANGED <<controlIndex, others>>

\* A later process runs createGames again on the same storages.
ReloadAll ==
  /\ Reload
  /\ others' \in [DOMAIN others -> UNION {newGame(others[i].gameState,
                                                   others[i].bestScore,
                                                   renderSize, startTiles) :
                                           i \in DOMAIN others}]
  /\ \A i \in DOMAIN others :
       others'[i] \in newGame(others[i].gameState, others[i].bestScore,
                              renderSize, startTiles)
  /\ UNCHANGED controlIndex

Next ==
  \/ \E direction \in 0..3 : ManagerMove(direction)
  \/ ManagerRestart
  \/ ManagerKeepPlaying
  \/ ReloadAll

Spec == Init /\ [][Next]_vars

\* One accepted move from every board a fresh setup can produce on the wide grid.
InitBoards ==
  /\ InitWith(WideSize, 1..WideStartTiles, {Null}, MaxMoves - 1)
  /\ Alone

NextBoards == \E direction \in 0..3 : ManagerMove(direction)

SpecBoards == InitBoards /\ [][NextBoards]_vars

\* ------------------------------------------------------------------------
\* Sessions constructed on a storage that another configuration filled
\* ------------------------------------------------------------------------
\* Persisted states whose grid is one cell wider or narrower than the board of
\* a renderer of size rs: a 2 in every cell of the top row that has an even
\* column, nothing else.
ForeignStates(rs) ==
  {[grid  |-> [size  |-> n,
               cells |-> [p \in Positions(n) |->
                            IF p.y = 0 /\ p.x % 2 = 0
                            THEN [position |-> p, value |-> 2]
                            ELSE Null]],
    score |-> 0, over |-> FALSE, won |-> FALSE, keepPlaying |-> FALSE] :
     n \in {rs - 1, rs + 1}}

\* The constructor finds such a state; startTiles may exceed the cells of the
\* board.
InitRestore ==
  /\ InitWith(Size, {StartTiles, Size * Size + 1}, ForeignStates(Size), 0)
  /\ Alone

SpecRestore == InitRestore /\ [][Next]_vars

\* ------------------------------------------------------------------------
\* Several sessions under one manager
\* ------------------------------------------------------------------------
\* GameManager.createGames: Count sessions of one size and startTiles, each
\* constructed on its own storage; the manager controls any one of them.  The
\* storage of the controlled session is empty, the others hold a saved game.
InitManager ==
  /\ InitWith(Size, {ManagerStartTiles}, {Null}, 0)
  /\ controlIndex \in 0..(Count - 1)
  /\ others \in [(0..(Count - 1)) \ {controlIndex} ->
                   UNION {newGame(p, p.score, renderSize, startTiles) :
                            p \in SavedStates(Size)}]

\* The manager's move and restart events; the controlled session accepts one
\* move less between restarts than a session driven alone.
NextManager ==
  \/ \E direction \in 0..3 : ManagerMove(direction) /\ nmoves' < MaxMoves
  \/ ManagerRestart

SpecManager == InitManager /\ [][NextManager]_vars


\* ------------------------------------------------------------------------
\* Vocabulary of the properties
\* ------------------------------------------------------------------------
TilesOf(g) == {g.cells[p] : p \in DOMAIN g.cells} \ {Null}

ValueAt(g, p) == IF g.cells[p] = Null THEN 0 ELSE g.cells[p].value

\* Same tile values in the same cells.
SameBoard(g, h) ==
  /\ g.size = h.size
  /\ \A p \in DOMAIN g.cells : ValueAt(g, p) = ValueAt(h, p)

Full(g) == \A p \in DOMAIN g.cells : g.cells[p] # Null

Adjacent(p, q) ==
  \/ p.x = q.x /\ (p.y - q.y = 1 \/ q.y - p.y = 1)
  \/ p.y = q.y /\ (p.x - q.x = 1 \/ q.x - p.x = 1)

\* Two orthogonally adjacent tiles of equal value.
AdjacentEqual(g) ==
  \E p, q \in DOMAIN g.cells :
    /\ Adjacent(p, q)
    /\ g.cells[p] # Null /\ g.cells[q] # Null
    /\ g.cells[p].value = g.cells[q].value

RECURSIVE SumOf(_)
SumOf(tiles) ==
  IF tiles = {} THEN 0
  ELSE LET t == CHOOSE u \in tiles : TRUE IN t.value + SumOf(tiles \ {t})

\* Tiles a merge of the last move produced.
MergedTiles(g) == {t \in TilesOf(g) : t.mergedFrom # <<>>}

\* Tiles created since the last prepareTiles that are no merge products: after
\* an accepted move, the spawned tile.
SpawnedTiles(g) ==
  {t \in TilesOf(g) : t.mergedFrom = <<>> /\ t.previousPosition = Null}

Terminated == over \/ (won /\ ~keepPlaying)

\* The step is a call of move.
MoveStep == lastOp' = "move"

\* The step is a call of move that changed the board and drew it.
AcceptedMove == lastOp' = "move" /\ calls' # <<>>

SessionUnchanged ==
  /\ grid' = grid /\ score' = score /\ over' = over /\ won' = won
  /\ keepPlaying' = keepPlaying

StorageUnchanged == gameState' = gameState /\ bestScore' = bestScore

\* ------------------------------------------------------------------------
\* C1
\* ------------------------------------------------------------------------
\* C1: a move on a terminated session (over, or won without keepPlaying)
\* changes neither grid, score, over, won nor keepPlaying and calls neither
\* storage nor the renderer.
C1_TerminatedMoveIsNoOp ==
  [][(MoveStep /\ Terminated)
       => (SessionUnchanged /\ StorageUnchanged /\ calls' = <<>>)]_vars

\* A move was called on a session that had won and not kept playing.
C1_Witness ==
  lastOp = "move" /\ calls = <<>> /\ won /\ ~keepPlaying /\ ~over

\* ------------------------------------------------------------------------
\* C2
\* ------------------------------------------------------------------------
\* C2: a move sets over only when, after its spawn, the grid has no empty
\* cell and no two orthogonally adjacent tiles of equal value.
C2_OverOnlyWithoutMoves ==
  [][(MoveStep /\ ~over /\ over')
       => (Full(grid') /\ ~AdjacentEqual(grid'))]_vars

\* ------------------------------------------------------------------------
\* C3
\* ------------------------------------------------------------------------
\* The source tiles of the merges of the last move, with the merge product.
MergeSources(g) ==
  {[product |-> t, index |-> i] : t \in MergedTiles(g), i \in 1..2}

\* C3: both sources of every merge are tiles that were on the grid when the
\* move started (prepareTiles saved their position and they are no merge
\* products), and no such tile is a source of two merges.
C3_NoChainMerge ==
  /\ \A m \in MergeSources(grid) :
       LET source == m.product.mergedFrom[m.index] IN
         /\ source.mergedFrom = <<>>
         /\ source.previousPosition # Null
         /\ m.product.value = 2 * source.value
  /\ \A m, n \in MergeSources(grid) :
       m # n => m.product.mergedFrom[m.index].previousPosition
                  # n.product.mergedFrom[n.index].previousPosition

\* A merge product rests against a tile of its own value that slid up to it
\* along the line of the move without merging (2,2,4 became 4,4).
C3_Witness ==
  \E m \in MergedTiles(grid), t \in TilesOf(grid) :
    /\ t.mergedFrom = <<>>
    /\ t.previousPosition # Null
    /\ ~positionsEqual(t.previousPosition, t)
    /\ t.value = m.value
    /\ Adjacent(t, m)
    /\ (t.previousPosition.x = m.x \/ t.previousPosition.y = m.y)

\* ------------------------------------------------------------------------
\* C4
\* ------------------------------------------------------------------------
\* C4: a move turns won from false to true exactly when one of its merges
\* produced a tile of value 2048, and no move and no keepPlaying call turns
\* won back to false.
C4_WonExactlyOn2048 ==
  [][/\ (MoveStep /\ ~won)
          => (won' <=> \E t \in MergedTiles(grid') : t.value = 2048)
     /\ (won /\ lastOp' \in {"move", "keepPlaying"}) => won']_vars

\* A move has just merged two tiles into 2048 and won.
C4_Witness ==
  /\ lastOp = "move" /\ calls # <<>> /\ won
  /\ \E t \in MergedTiles(grid) : t.value = 2048

\* ------------------------------------------------------------------------
\* C5
\* ------------------------------------------------------------------------
\* C5 as claimed: no move turns both over and won from false to true.
C5_NeverBothNewlySet ==
  [][~(MoveStep /\ ~over /\ ~won /\ over' /\ won')]_vars

\* C5 as amended: a move turns both over and won from false to true only when
\* one of its merges produced 2048 and its spawn filled the last empty cell.
C5_BothOnlyOnFull2048 ==
  [][(MoveStep /\ ~over /\ ~won /\ over' /\ won')
       => /\ \E t \in MergedTiles(grid') : t.value = 2048
          /\ Full(grid')
          /\ SpawnedTiles(grid') # {}]_vars

\* A move has just set both won and over.
C5_Witness ==
  /\ lastOp = "move" /\ calls # <<>> /\ won /\ over
  /\ \E t \in MergedTiles(grid) : t.value = 2048

\* ------------------------------------------------------------------------
\* C6
\* ------------------------------------------------------------------------
\* C6: on a session that has won and not kept playing, the keepPlaying
\* operation sets keepPlaying to true and leaves won true, so that the
\* session is no longer terminated unless it is over.
C6_KeepPlayingLatches ==
  [][(lastOp' = "keepPlaying" /\ won /\ ~keepPlaying)
       => /\ keepPlaying' = TRUE
          /\ won' = won
          /\ (~over' => ~(over' \/ (won' /\ ~keepPlaying')))]_vars

\* ------------------------------------------------------------------------
\* C7
\* ------------------------------------------------------------------------
\* C7: no move, accepted or not, lowers the score.
C7_ScoreNeverDecreases ==
  [][MoveStep => score' >= score]_vars

\* A move has just merged tiles and scored.
C7_Witness ==
  lastOp = "move" /\ calls # <<>> /\ MergedTiles(grid) # {} /\ score > 0

\* ------------------------------------------------------------------------
\* C8
\* ------------------------------------------------------------------------
\* C8 as claimed: after an accepted move, the sum of the tile values minus
\* twice the sum of the values of the merge products of the move equals the
\* sum before the move plus the value of the spawned tile.
C8_SumMinusTwiceMerged ==
  [][AcceptedMove
       => SumOf(TilesOf(grid')) - 2 * SumOf(MergedTiles(grid'))
            = SumOf(TilesOf(grid)) + SumOf(SpawnedTiles(grid'))]_vars

\* C8 as amended: after an accepted move, the sum of the tile values equals
\* the sum before the move plus the value of the one spawned tile; a merge
\* replaces two tiles by one of their total value.
C8_SumConserved ==
  [][AcceptedMove
       => /\ Cardinality(SpawnedTiles(grid')) = 1
          /\ SumOf(TilesOf(grid'))
               = SumOf(TilesOf(grid)) + SumOf(SpawnedTiles(grid'))]_vars

\* An accepted move has merged tiles, slid others and spawned one.
C8_Witness ==
  /\ lastOp = "move" /\ calls # <<>>
  /\ MergedTiles(grid) # {}
  /\ SpawnedTiles(grid) # {}
  /\ \E t \in TilesOf(grid) :
       /\ t.previousPosition # Null
       /\ ~positionsEqual(t.previousPosition, t)

\* ------------------------------------------------------------------------
\* C9
\* ------------------------------------------------------------------------
\* Every tile is, after the step, in the cell it was in before and unmerged.
NoTileLeftItsCell ==
  \A p \in DOMAIN grid.cells :
    grid.cells[p] # Null
      => /\ grid'.cells[p] # Null
         /\ grid'.cells[p].value = grid.cells[p].value
         /\ grid'.cells[p].mergedFrom = <<>>
         /\ grid'.cells[p].previousPosition = p

\* C9: a move of a non-terminated session that leaves every tile in its cell
\* spawns no tile, leaves over, won and score alone and calls neither storage
\* nor the renderer.
C9_UnmovedBoardIsDiscarded ==
  [][(MoveStep /\ ~Terminated /\ NoTileLeftItsCell)
       => /\ SameBoard(grid, grid')
          /\ over' = over /\ won' = won /\ score' = score
          /\ StorageUnchanged
          /\ calls' = <<>>]_vars

\* A move was called on a live session with tiles and moved none of them.
C9_Witness ==
  /\ lastOp = "move" /\ calls = <<>> /\ ~Terminated
  /\ TilesOf(grid) # {}
  /\ ~Full(grid)
  /\ \A t \in TilesOf(grid) : t.previousPosition = Position(t.x, t.y)

\* ------------------------------------------------------------------------
\* C10
\* ------------------------------------------------------------------------
\* C10 as claimed: whenever the grid is full and no two adjacent tiles are
\* equal, over is true.
C10_DeadBoardIsOver ==
  (Full(grid) /\ ~AdjacentEqual(grid)) => over

\* C10 as amended: on a full grid without equal neighbours every move is a
\* no-op, and over is true whenever an accepted move produced that grid; a
\* grid that setup filled has over false.
C10_DeadBoardMovesAreNoOps ==
  [][/\ (AcceptedMove /\ Full(grid') /\ ~AdjacentEqual(grid')) => over'
     /\ (MoveStep /\ Full(grid) /\ ~AdjacentEqual(grid))
          => /\ SameBoard(grid, grid')
             /\ score' = score /\ over' = over /\ won' = won
             /\ keepPlaying' = keepPlaying
             /\ StorageUnchanged
             /\ calls' = <<>>]_vars

\* A move was called on a full board without equal neighbours that setup had
\* produced, and did nothing.
C10_Witness ==
  /\ lastOp = "move" /\ calls = <<>> /\ ~over
  /\ Full(grid) /\ ~AdjacentEqual(grid)

\* ------------------------------------------------------------------------
\* C11
\* ------------------------------------------------------------------------
Min(a, b) == IF a < b THEN a ELSE b

\* C11: restart leaves score 0, over, won and keepPlaying false and a grid of
\* the renderer's size holding exactly min(startTiles, size * size) tiles,
\* each of value 2 or 4, whatever the session and the storage held before.
C11_RestartIsFresh ==
  [][lastOp' = "restart"
       => /\ score' = 0 /\ ~over' /\ ~won' /\ keepPlaying' = FALSE
          /\ grid'.size = renderSize
          /\ Cardinality(TilesOf(grid'))
               = Min(startTiles, renderSize * renderSize)
          /\ \A t \in TilesOf(grid') : t.value \in {2, 4}]_vars

\* A session restarted after play on a restored board, with more start tiles
\* asked for than the board has cells.
C11_Witness ==
  /\ lastOp = "restart" /\ bestScore > 0
  /\ startTiles > renderSize * renderSize
  /\ Full(grid)

\* ------------------------------------------------------------------------
\* C12
\* ------------------------------------------------------------------------
\* The operation that led to this state made the callout c.
Called(c) == \E i \in 1..Len(calls) : calls[i] = c

\* C12: no step lowers the stored best score, and in every state left by an
\* operation that drew, the stored best score is at least the score.
C12_BestScoreIsHighWater ==
  /\ [](Called("draw") => bestScore >= score)
  /\ [][bestScore' >= bestScore]_vars

\* A move whose merges lifted the score above the stored best, which draw
\* then raised to it.
C12_Witness ==
  /\ lastOp = "move" /\ Called("setBestScore") /\ Called("draw")
  /\ score > 0 /\ bestScore = score

\* ------------------------------------------------------------------------
\* C13
\* ------------------------------------------------------------------------
\* What a fresh setup leaves in a session.
FreshSession(g, sc, ov, wn, kp) ==
  /\ sc = 0 /\ ~ov /\ ~wn /\ kp = FALSE
  /\ g.size = renderSize
  /\ Cardinality(TilesOf(g)) = Min(startTiles, renderSize * renderSize)
  /\ \A t \in TilesOf(g) : t.value \in {2, 4}

\* C13: under one manager a move event leaves the grid, score and flags of
\* every session other than the one at controlIndex as they were, and a
\* restart event leaves every session, controlled or not, fresh.
C13_MoveIsLocalRestartIsGlobal ==
  [][/\ DOMAIN others' = DOMAIN others
     /\ lastOp' = "move"
          => \A i \in DOMAIN others :
               /\ others'[i].grid = others[i].grid
               /\ others'[i].score = others[i].score
               /\ others'[i].over = others[i].over
               /\ others'[i].won = others[i].won
               /\ others'[i].keepPlaying = others[i].keepPlaying
     /\ lastOp' = "restart"
          => /\ FreshSession(grid', score', over', won', keepPlaying')
             /\ \A i \in DOMAIN others :
                  FreshSession(others'[i].grid, others'[i].score,
                               others'[i].over, others'[i].won,
                               others'[i].keepPlaying)]_vars

\* The controlled session has moved after a restart that reset another
\* session, which had been restored with a score and has not moved since.
C13_Witness ==
  /\ lastOp = "move" /\ calls # <<>>
  /\ \E i \in DOMAIN others :
       /\ i # controlIndex
       /\ others[i].bestScore > 0 /\ others[i].score = 0
       /\ others[i].grid # grid

\* ------------------------------------------------------------------------
\* C14
\* ------------------------------------------------------------------------
\* The sessions setup constructs when the storage returns what serialize()
\* gives for the session as it is.
Reloaded ==
  setup(serialize(grid, score, over, won, keepPlaying), renderSize, startTiles)

\* C14: whenever the session is not over, a session set up from its
\* serialize() has the same tile values in the same cells, each tile at the
\* position of its cell, and the same score, over, won and keepPlaying.
C14_RoundTrip ==
  ~over =>
    /\ Reloaded # {}
    /\ \A s \in Reloaded :
         /\ SameBoard(s.grid, grid)
         /\ \A p \in DOMAIN s.grid.cells :
              s.grid.cells[p] # Null =>
                Position(s.grid.cells[p].x, s.grid.cells[p].y) = p
         /\ s.score = score
         /\ s.over = over
         /\ s.won = won
         /\ s.keepPlaying = keepPlaying

\* A session that has won by a merge and is not over: its tiles carry the
\* history of the move, which the reloaded tiles do not.
C14_Witness ==
  /\ ~over /\ won /\ score > 0
  /\ MergedTiles(grid) # {}
  /\ \A s \in Reloaded : s.grid # grid

\* ------------------------------------------------------------------------
\* C15
\* ------------------------------------------------------------------------
\* C15: when the session is constructed on a storage whose persisted state
\* has a grid of another size than the renderer's, setup takes it for no
\* previous state and leaves a fresh session.
C15_MalformedStateGivesFreshSession ==
  [][(/\ lastOp' = "new"
      /\ gameState # Null
      /\ gameState.grid.size # renderSize)
       => FreshSession(grid', score', over', won', keepPlaying')]_vars

\* ------------------------------------------------------------------------
\* C16
\* ------------------------------------------------------------------------
\* The k-th cell, counted from the destination edge, of line i of a board of
\* size n: rows for right (1) and left (3), columns for up (0) and down (2).
EdgeCell(direction, i, k, n) ==
  CASE direction = 0 -> Position(i, k - 1)
    [] direction = 1 -> Position(n - k, i)
    [] direction = 2 -> Position(i, n - k)
    [] direction = 3 -> Position(k - 1, i)

\* The values of the tiles of line i, from the destination edge, gaps left out.
LineValues(g, direction, i) ==
  SelectSeq([k \in 1..g.size |-> ValueAt(g, EdgeCell(direction, i, k, g.size))],
            LAMBDA v : v # 0)

\* Each pair of equal neighbours, scanning from the edge, becomes one tile of
\* double value; a tile made by a merge is not merged again.
RECURSIVE mergeLine(_)
mergeLine(line) ==
  IF Len(line) < 2 THEN line
  ELSE IF line[1] = line[2]
       THEN <<2 * line[1]>> \o mergeLine(SubSeq(line, 3, Len(line)))
       ELSE <<line[1]>> \o mergeLine(Tail(line))

\* The sum of the values of the tiles the merges of a line make.
RECURSIVE lineGain(_)
lineGain(line) ==
  IF Len(line) < 2 THEN 0
  ELSE IF line[1] = line[2]
       THEN 2 * line[1] + lineGain(SubSeq(line, 3, Len(line)))
       ELSE lineGain(Tail(line))

RECURSIVE boardGain(_, _, _)
boardGain(g, direction, i) ==
  IF i >= g.size THEN 0
  ELSE lineGain(LineValues(g, direction, i)) + boardGain(g, direction, i + 1)

\* C16: for the board of every state and every direction, the slide and merge
\* phase of move leaves, in every line along the direction, the merged line of
\* the reference packed against the destination edge, and adds the values of
\* the merged tiles to the score.
C16_SlideEqualsReference ==
  \A direction \in 0..3 :
    LET st == slide(grid, score, won, renderSize, direction) IN
      /\ \A i \in 0..(grid.size - 1) :
           LET ref == mergeLine(LineValues(grid, direction, i)) IN
             \A k \in 1..grid.size :
               ValueAt(st.grid, EdgeCell(direction, i, k, grid.size))
                 = IF k <= Len(ref) THEN ref[k] ELSE 0
      /\ st.score = score + boardGain(grid, direction, 0)

\* A move has packed two equal tiles, neither of which stood at the
\* destination edge, into one tile of double value at the edge.
C16_Witness ==
  /\ lastOp = "move" /\ calls # <<>>
  /\ \E m \in MergedTiles(grid) :
       /\ m.mergedFrom[1].previousPosition # Position(m.x, m.y)
       /\ m.mergedFrom[2].previousPosition # Position(m.x, m.y)
       /\ m.value = 2 * m.mergedFrom[1].value
       /\ \E direction \in 0..3 : \E i \in 0..(grid.size - 1) :
            EdgeCell(direction, i, 1, grid.size) = Position(m.x, m.y)

\* ------------------------------------------------------------------------
\* C17
\* ------------------------------------------------------------------------
\* C17: every accepted move ends, for the direction it was called with, on
\* the grid of its slide and merge phase plus exactly one tile: that tile has
\* value 2 or 4 and stands in a cell the slide had left empty, and every other
\* cell holds what the slide left in it.
C17_AcceptedMoveSpawnsOneTile ==
  [][AcceptedMove =>
       \E direction \in 0..3 :
         LET st == slide(grid, score, won, renderSize, direction) IN
           /\ st.moved
           /\ \E p \in DOMAIN st.grid.cells : st.grid.cells[p] = Null
           /\ \E p \in DOMAIN st.grid.cells :
                /\ st.grid.cells[p] = Null
                /\ grid'.cells[p] # Null
                /\ grid'.cells[p].value \in {2, 4}
                /\ Position(grid'.cells[p].x, grid'.cells[p].y) = p
                /\ SpawnedTiles(grid') = {grid'.cells[p]}
                /\ \A q \in DOMAIN st.grid.cells \ {p} :
                     grid'.cells[q] = st.grid.cells[q]]_vars

\* A move on a full board whose single merge freed the cell the spawn filled.
C17_Witness ==
  /\ lastOp = "move" /\ calls # <<>>
  /\ Full(grid)
  /\ Cardinality(MergedTiles(grid)) = 1
  /\ Cardinality(SpawnedTiles(grid)) = 1

\* ------------------------------------------------------------------------
\* C18
\* ------------------------------------------------------------------------
\* The cells move visits, in the order of its two nested forEach loops.
TraversalCells(direction) ==
  LET traversals == buildTraversals(getVector(direction), renderSize)
      n          == renderSize
  IN [k \in 1..(n * n) |->
        Position(traversals.x[((k - 1) \div n) + 1],
                 traversals.y[((k - 1) % n) + 1])]

\* The tiles the loop body finds, in order, each named by the position
\* prepareTiles saved for it (Null for a tile made during the move).
RECURSIVE visits(_, _, _, _)
visits(st, cells, k, vector) ==
  IF k > Len(cells) THEN <<>>
  ELSE LET tile == cellContent(st.grid, cells[k]) IN
         (IF tile = Null THEN <<>> ELSE <<tile.previousPosition>>)
           \o visits(moveCell(st, cells[k], vector), cells, k + 1, vector)

VisitsOfMove(direction) ==
  visits([grid |-> prepareTiles(grid), score |-> score, won |-> won,
          moved |-> FALSE],
         TraversalCells(direction), 1, getVector(direction))

\* C18: in every state where move would run, for every direction, each tile
\* on the grid is found by the traversal exactly once.
C18_EveryTileProcessedOnce ==
  ~Terminated =>
    \A direction \in 0..3 :
      LET log == VisitsOfMove(direction) IN
        \A t \in TilesOf(grid) :
          Cardinality({k \in 1..Len(log) : log[k] = Position(t.x, t.y)}) = 1

\* ------------------------------------------------------------------------
\* C19
\* ------------------------------------------------------------------------
IsPowerOfTwo(v) == \E k \in 1..16 : v = 2 ^ k

\* The tiles two merged tiles were made from.
SourcesOf(g) == UNION {{m.mergedFrom[1], m.mergedFrom[2]} : m \in MergedTiles(g)}

\* C19: in every state each occupied cell holds a tile whose position is the
\* cell and whose value is a power of two, at least 2; no tile that was on
\* the board when the last move began stands in two cells, and no source of
\* a merge stands in any cell.
C19_GridIsWellFormed ==
  /\ \A p \in DOMAIN grid.cells :
       grid.cells[p] # Null =>
         /\ Position(grid.cells[p].x, grid.cells[p].y) = p
         /\ IsPowerOfTwo(grid.cells[p].value)
  /\ \A t, u \in TilesOf(grid) :
       (t.previousPosition # Null /\ t.previousPosition = u.previousPosition)
         => t = u
  /\ \A s \in SourcesOf(grid) : \A t \in TilesOf(grid) :
       /\ s.previousPosition # Null
       /\ t.previousPosition # s.previousPosition

\* A move has merged two 1024 tiles; the cell its travelling source left is
\* empty and another tile has kept its cell.
C19_Witness ==
  /\ lastOp = "move"
  /\ \E m \in MergedTiles(grid) :
       /\ m.value = 2048
       /\ grid.cells[m.mergedFrom[1].previousPosition] = Null
  /\ \E t \in TilesOf(grid) :
       t.previousPosition = Position(t.x, t.y)

\* ------------------------------------------------------------------------
\* C20
\* ------------------------------------------------------------------------
\* C20: in every state left by an operation that drew, the storage holds
\* serialize() of the session when the session is not over and no game state
\* when it is over; and a session constructed on the storage of a session
\* that is over is fresh.
C20_StorageFollowsDraw ==
  /\ [](Called("draw") =>
          IF over THEN gameState = Null
          ELSE gameState = serialize(grid, score, over, won, keepPlaying))
  /\ [][(lastOp' = "new" /\ over)
          => FreshSession(grid', score', over', won', keepPlaying')]_vars

\* The move that ended the game has drawn, clearing the stored state; the
\* best score it reached stays stored.
C20_Witness ==
  /\ lastOp = "move" /\ over
  /\ Called("clearGameState") /\ Called("draw")
  /\ gameState = Null
  /\ bestScore >= score /\ score > 0

====
